---- MODULE Spec2Model ----
(***************************************************************************)
(* A model of qpageview's page layouts (layout.py): AbstractPageLayout,    *)
(* PageLayout and RowPageLayout, and of the link handling a view adds to   *)
(* them (link.py, ViewMixin).  A layout is a Python list of page           *)
(* objects plus layout attributes; pages are objects on a heap, so that    *)
(* two layouts (or a layout and its cached PageRects index) can refer to   *)
(* the same page object.                                                   *)
(*                                                                         *)
(* Conventions.  Page positions are kept in half pixels (fields x2, y2):   *)
(* PageLayout.updatePagePositions divides by 2 with true division, all     *)
(* other code writes whole pixels.  A zoom factor is a fraction <<n, d>>.  *)
(* A result fraction of pos2offset is a pair <<numerator, denominator>>.   *)
(***************************************************************************)
EXTENDS Integers, Sequences, FiniteSets, TLC

VARIABLES
    L,        \* the layout object: its attributes and its list of page ids
    C,        \* the layout returned by L.copy(); NoLayout before copy()
    heap,     \* the page objects, by object id (1..Len(heap))
    view,     \* the view showing L (link.py, ViewMixin): its attributes
    op,       \* the operation that ran last
    arg,      \* its argument
    ret,      \* its return value
    err       \* the exception it raised, or "none"

vars == <<L, C, heap, view, op, arg, ret, err>>

---------------------------------------------------------------------------
(* Bounds of the model *)

MaxPages == 2
MaxUpdatePages == 2
MaxSetPages == 6
MaxPerSet == 3
MaxGridPages == 7

(* Class-level defaults of the layouts *)

DefaultMargin == 6
DefaultSpacing == 8
DefaultPagesPerRow == 2
DefaultPagesFirstRow == 1

None == 0

Min(a, b) == IF a <= b THEN a ELSE b
Max(a, b) == IF a >= b THEN a ELSE b

Range(s) == {s[i] : i \in 1..Len(s)}

---------------------------------------------------------------------------
(* Python list slicing self[s:e] *)

PySliceIndex(i, n) == IF i < 0 THEN Max(i + n, 0) ELSE Min(i, n)

PySlice(seq, s, e) ==
    LET n == Len(seq)
        lo == PySliceIndex(s, n)
        hi == PySliceIndex(e, n)
    IN  IF hi <= lo THEN <<>> ELSE SubSeq(seq, lo + 1, hi)

---------------------------------------------------------------------------
(* Page sets *)

\* RowPageLayout turns pagesPerSet and pagesFirstSet into properties that
\* read pagesPerRow and pagesFirstRow.
pagesPerSet(l) == IF l.kind = "row" THEN l.pagesPerRow ELSE l.pagesPerSet

pagesFirstSet(l) == IF l.kind = "row" THEN l.pagesFirstRow ELSE l.pagesFirstSet

\* pageSets(), with the layout's count and attributes as arguments.  The
\* merge of a leftover run into a previous run of the same length is written
\* as a comparison (==) in the source, so the list is left as it is.
PageSetsOf(count, first, per) ==
    LET hasFirst == first # 0 /\ first # per
        length == Min(count, first)
        r1 == IF hasFirst THEN << <<1, length>> >> ELSE <<>>
        left1 == IF hasFirst THEN count - length ELSE count
        cnt == left1 \div per
        left2 == left1 % per
        r2 == IF cnt # 0 THEN Append(r1, <<cnt, per>>) ELSE r1
        r3 == IF left2 # 0
                THEN IF r2 # <<>> /\ r2[Len(r2)][2] = left2
                        THEN r2
                        ELSE Append(r2, <<1, left2>>)
                ELSE r2
    IN  IF count = 0 THEN <<>>
        ELSE IF left1 = 0 THEN r1
        ELSE r3

pageSets(l) == PageSetsOf(Len(l.pages), pagesFirstSet(l), pagesPerSet(l))

RECURSIVE SumCounts(_, _)
SumCounts(sets, k) ==
    IF k > Len(sets) THEN 0 ELSE sets[k][1] + SumCounts(sets, k + 1)

pageSetCount(l) == SumCounts(pageSets(l), 1)

\* The loop of pageSet(index): s is the index at the start of the run, p the
\* page set at the start of the run.
RECURSIVE PageSetWalk(_, _, _, _, _)
PageSetWalk(sets, k, s, p, index) ==
    IF k > Len(sets) THEN 0
    ELSE LET count == sets[k][1]
             length == sets[k][2]
         IN  IF s + count * length < index
               THEN PageSetWalk(sets, k + 1, s + count * length, p + count, index)
               ELSE p + ((index - s) \div length)

pageSet(l, index) == PageSetWalk(pageSets(l), 1, 0, 0, index)

\* The loop of displayPages(): the slice bounds <<s, s + length>> of the
\* page set num, or <<>> when the loop ends without returning.
RECURSIVE DisplayWalk(_, _, _, _, _)
DisplayWalk(sets, k, p, s, num) ==
    IF k > Len(sets) THEN <<>>
    ELSE LET count == sets[k][1]
             length == sets[k][2]
         IN  IF p + count <= num
               THEN DisplayWalk(sets, k + 1, p + count, s + count * length, num)
               ELSE LET s2 == s + (num - p) * length
                    IN  <<s2, s2 + length>>

\* displayPages(): the pages returned and the value currentPageSet has
\* afterwards (the method assigns it when it clamps).
displayPages(l) ==
    IF ~l.continuousMode
      THEN LET count == pageSetCount(l)
               clamp == l.currentPageSet # 0 /\ l.currentPageSet >= count
               num == IF clamp THEN count - 1 ELSE l.currentPageSet
               sl == DisplayWalk(pageSets(l), 1, 0, 0, num)
           IN  [currentPageSet |-> num,
                pages |-> IF sl = <<>> THEN l.pages
                          ELSE PySlice(l.pages, sl[1], sl[2])]
      ELSE [currentPageSet |-> l.currentPageSet, pages |-> l.pages]

---------------------------------------------------------------------------
(* Pages (page.py is outside the modelled files: the page's own methods are  *)
(* modelled from the interface the layout relies on)                         *)

\* A new page of natural size pw x ph: nothing computed yet.
NewPage(pw, ph, rotation) ==
    [pw |-> pw, ph |-> ph, rotation |-> rotation, computedRotation |-> 0,
     width |-> 0, height |-> 0, x2 |-> 0, y2 |-> 0]

\* page.computeSize(rotation, dpiX, dpiY, zoomFactor) at the page's own dpi:
\* the natural size, swapped for an odd rotation, times the zoom factor,
\* rounded to whole pixels.
computeSize(page, rotation, zoom) ==
    LET w == IF rotation % 2 = 1 THEN page.ph ELSE page.pw
        h == IF rotation % 2 = 1 THEN page.pw ELSE page.ph
    IN  <<(2 * w * zoom[1] + zoom[2]) \div (2 * zoom[2]),
          (2 * h * zoom[1] + zoom[2]) \div (2 * zoom[2])>>

\* page.geometry(): QRect(x, y, width, height); QRect takes whole pixels.
geometry(page) ==
    [x |-> page.x2 \div 2, y |-> page.y2 \div 2,
     w |-> page.width, h |-> page.height]

\* page.copy(): a new object with the same attributes.
pageCopy(page) == page

---------------------------------------------------------------------------
(* QRect and QMargins arithmetic used by computeGeometry() *)

NullRect == [x |-> 0, y |-> 0, w |-> 0, h |-> 0]

\* _rects = None: no PageRects object is cached
NoRects == [id |-> 0, items |-> <<>>]

IsNull(r) == r.w = 0 /\ r.h = 0

\* r | o
United(r, o) ==
    IF IsNull(r) THEN o
    ELSE IF IsNull(o) THEN r
    ELSE LET left == Min(r.x, o.x)
             top == Min(r.y, o.y)
             right == Max(r.x + r.w - 1, o.x + o.w - 1)
             bottom == Max(r.y + r.h - 1, o.y + o.h - 1)
         IN  [x |-> left, y |-> top, w |-> right - left + 1, h |-> bottom - top + 1]

\* r + margins
MarginsAdded(r, m) ==
    [x |-> r.x - m.left, y |-> r.y - m.top,
     w |-> r.w + m.left + m.right, h |-> r.h + m.top + m.bottom]

MaxOf(S) == CHOOSE m \in S : \A v \in S : v <= m

---------------------------------------------------------------------------
(* The update() pipeline *)

\* updatePageSizes(): the loop from page k on; page.updateSize() sets the
\* page's computedRotation, width and height.
RECURSIVE PageSizesFrom(_, _, _)
PageSizesFrom(l, h, k) ==
    IF k > Len(l.pages) THEN h
    ELSE LET id == l.pages[k]
             rotation == (h[id].rotation + l.rotation) % 4
             size == computeSize(h[id], rotation, l.zoomFactor)
         IN  PageSizesFrom(l,
                 [h EXCEPT ![id].computedRotation = rotation,
                           ![id].width = size[1], ![id].height = size[2]],
                 k + 1)

updatePageSizes(l, h) == PageSizesFrom(l, h, 1)

\* AbstractPageLayout.updatePagePositions: the loop from page k on.
RECURSIVE AbstractPositions(_, _, _, _)
AbstractPositions(l, h, k, top) ==
    IF k > Len(l.pages) THEN h
    ELSE LET id == l.pages[k]
         IN  AbstractPositions(l,
                 [h EXCEPT ![id].x2 = 2 * l.margins.left, ![id].y2 = 2 * top],
                 k + 1, top + h[id].height + l.spacing)

\* PageLayout.updatePagePositions, orientation Vertical.
RECURSIVE VerticalPositions(_, _, _, _, _)
VerticalPositions(l, h, k, width, top) ==
    IF k > Len(l.pages) THEN h
    ELSE LET id == l.pages[k]
         IN  VerticalPositions(l,
                 [h EXCEPT ![id].x2 = width - h[id].width, ![id].y2 = 2 * top],
                 k + 1, width, top + h[id].height + l.spacing)

\* PageLayout.updatePagePositions, orientation Horizontal.
RECURSIVE HorizontalPositions(_, _, _, _, _)
HorizontalPositions(l, h, k, height, left) ==
    IF k > Len(l.pages) THEN h
    ELSE LET id == l.pages[k]
         IN  HorizontalPositions(l,
                 [h EXCEPT ![id].x2 = 2 * left, ![id].y2 = height - h[id].height],
                 k + 1, height, left + h[id].width + l.spacing)

PageLayoutPositions(l, h) ==
    IF l.orientation = "Vertical"
      THEN LET width == MaxOf({0} \cup {h[id].width : id \in Range(l.pages)})
                          + l.margins.left + l.margins.right
           IN  VerticalPositions(l, h, 1, width, l.margins.top)
      ELSE LET height == MaxOf({0} \cup {h[id].height : id \in Range(l.pages)})
                           + l.margins.top + l.margins.bottom
           IN  HorizontalPositions(l, h, 1, height, l.margins.left)

\* RowPageLayout: the list of pages with the empty places prepended, and the
\* number of columns used.
RowCols(l) ==
    IF Len(l.pages) > l.pagesPerRow THEN l.pagesPerRow ELSE Len(l.pages)

\* The list of pages with no empty places prepended.
RowPaddedNoPlaces(l) == l.pages

RowPadded(l) ==
    IF Len(l.pages) > l.pagesPerRow
      THEN [i \in 1..((l.pagesPerRow - l.pagesFirstRow) % l.pagesPerRow) |-> None]
             \o l.pages
      ELSE l.pages

\* pages[col::cols] if p, for the 0-based column col
ColumnPages(padded, cols, col) ==
    {padded[j] : j \in {j \in 1..Len(padded) :
                          (j - 1) % cols = col /\ padded[j] # None}}

\* The first loop: col_widths and col_offsets, as sequences indexed from 1.
RECURSIVE RowColumns(_, _, _, _, _, _, _)
RowColumns(l, h, padded, cols, col, offset, acc) ==
    IF col >= cols THEN acc
    ELSE LET width == MaxOf({h[id].width : id \in ColumnPages(padded, cols, col)})
         IN  RowColumns(l, h, padded, cols, col + 1, offset + width + l.spacing,
                        [widths |-> Append(acc.widths, width),
                         offsets |-> Append(acc.offsets, offset)])

\* The inner loop over one row: places the row's pages.
RECURSIVE RowPlace(_, _, _, _, _, _)
RowPlace(h, row, n, columns, top, height) ==
    IF n > Len(row) THEN h
    ELSE LET id == row[n]
         IN  IF id # None
               THEN RowPlace(
                      [h EXCEPT
                         ![id].x2 = 2 * (columns.offsets[n]
                                          + ((columns.widths[n] - h[id].width) \div 2)),
                         ![id].y2 = 2 * (top + ((height - h[id].height) \div 2))],
                      row, n + 1, columns, top, height)
               ELSE RowPlace(h, row, n + 1, columns, top, height)

\* The outer loop over the rows pages[i:i + cols], i = 0, cols, 2 * cols, ...
RECURSIVE RowRows(_, _, _, _, _, _, _)
RowRows(l, h, padded, cols, columns, i, top) ==
    IF i >= Len(padded) THEN h
    ELSE LET row == PySlice(padded, i, i + cols)
             height == MaxOf({h[id].height : id \in Range(row) \ {None}})
         IN  RowRows(l, RowPlace(h, row, 1, columns, top, height),
                     padded, cols, columns, i + cols, top + height + l.spacing)

RowPositions(l, h) ==
    LET padded == RowPadded(l)
        cols == RowCols(l)
        columns == RowColumns(l, h, padded, cols, 0, l.margins.left,
                              [widths |-> <<>>, offsets |-> <<>>])
    IN  IF cols = 0 THEN h
        ELSE RowRows(l, h, padded, cols, columns, 0, l.margins.top)

updatePagePositions(l, h) ==
    CASE l.kind = "abstract" -> AbstractPositions(l, h, 1, l.margins.top)
      [] l.kind = "page" -> PageLayoutPositions(l, h)
      [] l.kind = "row" -> RowPositions(l, h)

layoutGeometry(l) == [x |-> l.x, y |-> l.y, w |-> l.width, h |-> l.height]

RECURSIVE UniteAll(_, _, _, _)
UniteAll(r, shown, h, k) ==
    IF k > Len(shown) THEN r
    ELSE UniteAll(United(r, geometry(h[shown[k]])), shown, h, k + 1)

\* computeGeometry() starting from the layout's present geometry instead of
\* an empty QRect().
computeGeometryFromOld(l, h) ==
    MarginsAdded(UniteAll(layoutGeometry(l), displayPages(l).pages, h, 1), l.margins)

\* computeGeometry(); displayPages() may assign currentPageSet on the way.
computeGeometry(l, h) ==
    MarginsAdded(UniteAll(NullRect, displayPages(l).pages, h, 1), l.margins)

\* update(): the layout and the heap afterwards, and the value returned.
update(l, h) ==
    LET l1 == [l EXCEPT !.rects = NoRects]
        h2 == updatePagePositions(l1, updatePageSizes(l1, h))
        g == computeGeometry(l1, h2)
        l2 == [l1 EXCEPT !.currentPageSet = displayPages(l1).currentPageSet]
    IN  [layout |-> [l2 EXCEPT !.x = g.x, !.y = g.y, !.width = g.w, !.height = g.h],
         heap |-> h2,
         changed |-> layoutGeometry(l2) # g]

---------------------------------------------------------------------------
(* The spatial index (rectangles.Rectangles is outside the modelled files;  *)
(* PageRects.get_coords is in layout.py)                                     *)

\* PageRects.get_coords(page): page.geometry().getCoords()
get_coords(page) ==
    LET g == geometry(page)
    IN  [left |-> g.x, top |-> g.y, right |-> g.x + g.w - 1, bottom |-> g.y + g.h - 1]

\* PageRects(pages): the objects with the coordinates they have now.
PageRects(shown, h, id) ==
    [id |-> id,
     items |-> [k \in 1..Len(shown) |-> [obj |-> shown[k], c |-> get_coords(h[shown[k]])]]]

\* bool(rects) of a PageRects object
RectsTruthy(r) == r.id # 0

Contains(c, x, y) == c.left <= x /\ x <= c.right /\ c.top <= y /\ y <= c.bottom

\* Rectangles.at(x, y): the objects containing the point, in index order
RectsAt(r, x, y) ==
    SelectSeq(r.items, LAMBDA it : Contains(it.c, x, y))

\* Rectangles.intersecting(left, top, right, bottom)
RectsIntersecting(r, q) ==
    SelectSeq(r.items, LAMBDA it : /\ it.c.left <= q.right /\ q.left <= it.c.right
                                   /\ it.c.top <= q.bottom /\ q.top <= it.c.bottom)

\* squared distance from the point to the rectangle
Distance2(c, x, y) ==
    LET dx == Max(Max(c.left - x, x - c.right), 0)
        dy == Max(Max(c.top - y, y - c.bottom), 0)
    IN  dx * dx + dy * dy

\* Rectangles.nearest(x, y): the closest object that does not contain the
\* point, the first of them in index order; None when there is none.
RectsNearest(r, x, y) ==
    LET cand == {k \in 1..Len(r.items) : ~Contains(r.items[k].c, x, y)}
        best == {k \in cand : \A j \in cand :
                    Distance2(r.items[k].c, x, y) <= Distance2(r.items[j].c, x, y)}
    IN  IF cand = {} THEN None
        ELSE r.items[CHOOSE k \in best : \A j \in best : k <= j].obj

\* _pageRects() without its test of the cached object: builds on every call.
pageRectsAlwaysBuilds(l, h, newId) ==
    [l EXCEPT !.rects = PageRects(displayPages(l).pages, h, newId),
              !.currentPageSet = displayPages(l).currentPageSet]

\* _pageRects(): the layout afterwards (the index cached, currentPageSet as
\* displayPages() left it); newId is the identity of a newly built object.
pageRects(l, h, newId) ==
    IF RectsTruthy(l.rects) THEN l
    ELSE [l EXCEPT !.rects = PageRects(displayPages(l).pages, h, newId),
                   !.currentPageSet = displayPages(l).currentPageSet]

\* pageAt(point): the page returned
pageAt(l, h, newId, pt) ==
    LET found == RectsAt(pageRects(l, h, newId).rects, pt[1], pt[2])
    IN  IF found = <<>> THEN None ELSE found[1].obj

\* nearestPageAt(point)
nearestPageAt(l, h, newId, pt) ==
    RectsNearest(pageRects(l, h, newId).rects, pt[1], pt[2])

\* pagesAt(rect): the pages yielded, as a set (their order is undefined)
pagesAt(l, h, newId, q) ==
    LET found == RectsIntersecting(pageRects(l, h, newId).rects, q)
    IN  {found[k].obj : k \in 1..Len(found)}

\* list.index(page), 0-based; -1 stands for the ValueError of a missing page
IndexOf(seq, id) ==
    IF id \in Range(seq)
      THEN (CHOOSE k \in 1..Len(seq) : seq[k] = id /\ \A j \in 1..(k - 1) : seq[j] # id) - 1
      ELSE -1

\* pos2offset(pos): the page at pos, else the nearest one
offsetPage(l, h, newId, pt) ==
    IF pageAt(l, h, newId, pt) # None THEN pageAt(l, h, newId, pt)
    ELSE nearestPageAt(l, h, newId, pt)

\* pos2offset(pos) from the page found on: [ret, err]
offsetInPage(l, h, pt, page) ==
    IF page = None
      THEN IF l.width = 0 \/ l.height = 0
             THEN [ret |-> None, err |-> "ZeroDivisionError"]
             ELSE [ret |-> <<-1, <<pt[1], l.width>>, <<pt[2], l.height>>>>,
                   err |-> "none"]
    ELSE IF IndexOf(l.pages, page) = -1
      THEN [ret |-> None, err |-> "ValueError"]
    ELSE IF h[page].width = 0 \/ h[page].height = 0
      THEN [ret |-> None, err |-> "ZeroDivisionError"]
    ELSE [ret |-> <<IndexOf(l.pages, page),
                    <<pt[1] - (h[page].x2 \div 2), h[page].width>>,
                    <<pt[2] - (h[page].y2 \div 2), h[page].height>>>>,
          err |-> "none"]

\* pos2offset(pos): [ret, err]
pos2offset(l, h, newId, pt) ==
    offsetInPage(l, h, pt, offsetPage(l, h, newId, pt))

---------------------------------------------------------------------------
(* Zoom to fit *)

RECURSIVE Gcd(_, _)
Gcd(a, b) == IF b = 0 THEN a ELSE Gcd(b, a % b)

\* the float n / d (d > 0), in lowest terms
Frac(n, d) ==
    LET g == Gcd(IF n < 0 THEN -n ELSE n, d)
    IN  <<n \div g, d \div g>>

FracLeq(a, b) == a[1] * b[2] <= b[1] * a[2]

\* max(self, key=key): the first page with the largest key
FirstMax(l, key(_)) ==
    l.pages[CHOOSE k \in 1..Len(l.pages) :
                /\ \A j \in 1..Len(l.pages) : key(l.pages[j]) <= key(l.pages[k])
                /\ \A j \in 1..(k - 1) : key(l.pages[j]) < key(l.pages[k])]

\* widestPage(); None on an empty layout
widestPage(l, h) ==
    IF Len(l.pages) # 0
      THEN FirstMax(l, LAMBDA id : IF (h[id].rotation + l.rotation) % 2 = 1
                                     THEN h[id].ph ELSE h[id].pw)
      ELSE None

\* highestPage(); None on an empty layout
highestPage(l, h) ==
    IF Len(l.pages) # 0
      THEN FirstMax(l, LAMBDA id : IF (h[id].rotation + l.rotation) % 2 = 1
                                     THEN h[id].pw ELSE h[id].ph)
      ELSE None

\* page.zoomForWidth(width, rotation, dpiX) at the page's own dpi
zoomForWidth(page, width, rotation) ==
    Frac(width, IF (page.rotation + rotation) % 2 = 1 THEN page.ph ELSE page.pw)

\* page.zoomForHeight(height, rotation, dpiY) at the page's own dpi
zoomForHeight(page, height, rotation) ==
    Frac(height, IF (page.rotation + rotation) % 2 = 1 THEN page.pw ELSE page.ph)

\* AbstractPageLayout.zoomFitWidth(width): [ret, err]
AbstractZoomFitWidth(l, h, width) ==
    LET w == width - (l.margins.left + l.margins.right)
        page == widestPage(l, h)
    IN  IF page = None THEN [ret |-> None, err |-> "AttributeError"]
        ELSE [ret |-> zoomForWidth(h[page], w, l.rotation), err |-> "none"]

\* RowPageLayout.zoomFitWidth(width): [ret, err]
RowZoomFitWidth(l, h, width) ==
    LET w1 == width - (l.margins.left + l.margins.right)
        ncols == Min(l.pagesPerRow, Len(l.pages))
        page == widestPage(l, h)
    IN  IF l.fitAllColumns /\ ncols = 0
          THEN [ret |-> None, err |-> "ZeroDivisionError"]
        ELSE IF page = None THEN [ret |-> None, err |-> "AttributeError"]
        ELSE LET w == IF l.fitAllColumns
                        THEN (w1 - l.spacing * (ncols - 1)) \div ncols
                        ELSE w1
             IN  [ret |-> zoomForWidth(h[page], w, l.rotation), err |-> "none"]

zoomFitWidth(l, h, width) ==
    IF l.kind = "row" THEN RowZoomFitWidth(l, h, width)
    ELSE AbstractZoomFitWidth(l, h, width)

\* zoomFitHeight(height): [ret, err]
zoomFitHeight(l, h, height) ==
    LET ht == height - (l.margins.top + l.margins.bottom)
        page == highestPage(l, h)
    IN  IF page = None THEN [ret |-> None, err |-> "AttributeError"]
        ELSE [ret |-> zoomForHeight(h[page], ht, l.rotation), err |-> "none"]

\* fit(size, mode): the zoomFactor afterwards.  mode is a combination of
\* FitWidth (1) and FitHeight (2); a non-empty layout has a widest and a
\* highest page, so the calls do not raise.
fit(l, h, size, mode) ==
    IF mode # 0 /\ Len(l.pages) # 0
      THEN LET zw == zoomFitWidth(l, h, size[1]).ret
               zh == zoomFitHeight(l, h, size[2]).ret
           IN  CASE mode = 1 -> zw
                 [] mode = 2 -> zh
                 [] mode = 3 -> IF FracLeq(zw, zh) THEN zw ELSE zh
      ELSE l.zoomFactor

---------------------------------------------------------------------------
(* copy() *)

\* (p.copy() for p in self): the heap with copies of the first n pages of
\* the layout added as new objects.
RECURSIVE PageCopies(_, _, _)
PageCopies(l, h, n) ==
    IF n = 0 THEN h
    ELSE Append(PageCopies(l, h, n - 1), pageCopy(h[l.pages[n]]))

\* copy.copy(self) copies the instance attributes as they are, the cached
\* PageRects object among them; then the list is filled with the copies of
\* the pages.
copyLayout(l, h) ==
    [layout |-> [l EXCEPT !.pages = [k \in 1..Len(l.pages) |-> Len(h) + k]],
     heap |-> PageCopies(l, h, Len(l.pages))]

---------------------------------------------------------------------------
(* Construction *)

\* The class-level defaults of AbstractPageLayout, PageLayout (orientation)
\* and RowPageLayout (pagesPerRow, pagesFirstRow, fitAllColumns).
NewLayout(kind, orientation) ==
    [kind |-> kind, orientation |-> orientation, pages |-> <<>>,
     margins |-> [left |-> DefaultMargin, top |-> DefaultMargin,
                  right |-> DefaultMargin, bottom |-> DefaultMargin],
     spacing |-> DefaultSpacing, zoomFactor |-> <<1, 1>>, rotation |-> 0,
     x |-> 0, y |-> 0, width |-> 0, height |-> 0,
     continuousMode |-> TRUE, pagesPerSet |-> 1, pagesFirstSet |-> 0,
     currentPageSet |-> 0, rects |-> NoRects,
     pagesPerRow |-> DefaultPagesPerRow, pagesFirstRow |-> DefaultPagesFirstRow,
     fitAllColumns |-> TRUE]

NoLayout == [kind |-> "none", pages |-> <<>>, rects |-> NoRects]

\* A layout holding new pages of the given natural sizes and rotations.
RECURSIVE NewPages(_, _)
NewPages(specs, n) ==
    IF n = 0 THEN <<>>
    ELSE Append(NewPages(specs, n - 1),
                NewPage(specs[n][1], specs[n][2], specs[n][3]))

WithPages(l, specs) ==
    [layout |-> [l EXCEPT !.pages = [k \in 1..Len(specs) |-> k]],
     heap |-> NewPages(specs, Len(specs))]

\* The identity of a PageRects object created now: that of no live one.
FreshRectsId == CHOOSE i \in 1..3 : i \notin {L.rects.id, C.rects.id}

Kinds == {<<"abstract", "Vertical">>, <<"page", "Vertical">>,
          <<"page", "Horizontal">>, <<"row", "Vertical">>}

---------------------------------------------------------------------------
(* The view's link handling (link.py, ViewMixin) *)

\* The attributes of a new view: the class-level linksEnabled, _currentLinkId
\* as __init__ sets it, and whether the background is being dragged.
NewView == [linksEnabled |-> TRUE, currentLinkId |-> None, dragging |-> FALSE]

\* id(link) of the link of a page: every page carries one link, which covers
\* the top left quarter of the page.
LinkOf(page) == page

\* page.linksAt(point), point relative to the page
linksAt(h, page, px, py) ==
    IF 0 <= px /\ 2 * px < h[page].width /\ 0 <= py /\ 2 * py < h[page].height
      THEN <<LinkOf(page)>>
      ELSE <<>>

\* linkAt(pos) once the page at pos is known: <<page, link>>, or <<None, None>>
linkAtPage(h, page, pt) ==
    IF page = None THEN <<None, None>>
    ELSE IF linksAt(h, page, pt[1] - (h[page].x2 \div 2), pt[2] - (h[page].y2 \div 2)) = <<>>
      THEN <<None, None>>
    ELSE <<page, LinkOf(page)>>

\* linkAt(pos); layoutPosition() is (0, 0)
linkAt(l, h, newId, pt) == linkAtPage(h, pageAt(l, h, newId, pt), pt)

\* handleLinks(pos) with the link found: the _currentLinkId afterwards and
\* the methods called, in order
handleLinksWith(v, link) ==
    [currentLinkId |-> link,
     calls |-> (IF link # v.currentLinkId /\ v.currentLinkId # None
                  THEN <<"linkHoverLeave">> ELSE <<>>)
               \o (IF link # v.currentLinkId /\ link # None
                     THEN <<"linkHoverEnter">> ELSE <<>>)
               \o (IF link # None THEN <<"setCursor">> ELSE <<"unsetCursor">>)]

---------------------------------------------------------------------------
(* Operations on the layout L *)

\* What every operation records: its name, argument, result and exception.
Returns(o, a, r, e) == op' = o /\ arg' = a /\ ret' = r /\ err' = e

SetMargins(m) ==
    /\ L' = [L EXCEPT !.margins = m]
    /\ Returns("setMargins", m, None, "none")
    /\ UNCHANGED <<heap, C, view>>

SetSpacing(v) ==
    /\ L' = [L EXCEPT !.spacing = v]
    /\ Returns("spacing", v, None, "none")
    /\ UNCHANGED <<heap, C, view>>

SetZoomFactor(z) ==
    /\ L' = [L EXCEPT !.zoomFactor = z]
    /\ Returns("zoomFactor", z, None, "none")
    /\ UNCHANGED <<heap, C, view>>

SetRotation(r) ==
    /\ L' = [L EXCEPT !.rotation = r]
    /\ Returns("rotation", r, None, "none")
    /\ UNCHANGED <<heap, C, view>>

SetContinuousMode(b) ==
    /\ L' = [L EXCEPT !.continuousMode = b]
    /\ Returns("continuousMode", b, None, "none")
    /\ UNCHANGED <<heap, C, view>>

SetCurrentPageSet(n) ==
    /\ L' = [L EXCEPT !.currentPageSet = n]
    /\ Returns("currentPageSet", n, None, "none")
    /\ UNCHANGED <<heap, C, view>>

\* pagesPerSet is an attribute of the abstract and the stacking layout;
\* pagesPerRow is the attribute behind it in the grid layout.
SetPagesPerSet(n) ==
    /\ L' = IF L.kind = "row" THEN [L EXCEPT !.pagesPerRow = n]
            ELSE [L EXCEPT !.pagesPerSet = n]
    /\ Returns("pagesPerSet", n, None, "none")
    /\ UNCHANGED <<heap, C, view>>

SetPagesFirstSet(n) ==
    /\ L' = IF L.kind = "row" THEN [L EXCEPT !.pagesFirstRow = n]
            ELSE [L EXCEPT !.pagesFirstSet = n]
    /\ Returns("pagesFirstSet", n, None, "none")
    /\ UNCHANGED <<heap, C, view>>

SetFitAllColumns(b) ==
    /\ L.kind = "row"
    /\ L' = [L EXCEPT !.fitAllColumns = b]
    /\ Returns("fitAllColumns", b, None, "none")
    /\ UNCHANGED <<heap, C, view>>

\* list.append(page) with a new page; at most max page objects are created
AppendPage(spec, max) ==
    /\ Len(heap) < max
    /\ L' = [L EXCEPT !.pages = Append(@, Len(heap) + 1)]
    /\ heap' = Append(heap, NewPage(spec[1], spec[2], spec[3]))
    /\ Returns("append", spec, None, "none")
    /\ UNCHANGED <<C, view>>

\* list.pop()
PopPage ==
    /\ L.pages # <<>>
    /\ L' = [L EXCEPT !.pages = SubSeq(@, 1, Len(@) - 1)]
    /\ Returns("pop", None, L.pages[Len(L.pages)], "none")
    /\ UNCHANGED <<heap, C, view>>

\* update() takes no argument: arg records whether the operation before it
\* was update() as well.
Update ==
    /\ \E u \in {update(L, heap)} :
          /\ L' = u.layout
          /\ heap' = u.heap
          /\ Returns("update", op = "update", u.changed, "none")
    /\ UNCHANGED <<C, view>>

PageAt(pt) ==
    /\ L' = pageRects(L, heap, FreshRectsId)
    /\ Returns("pageAt", pt, pageAt(L, heap, FreshRectsId, pt), "none")
    /\ UNCHANGED <<heap, C, view>>

NearestPageAt(pt) ==
    /\ L' = pageRects(L, heap, FreshRectsId)
    /\ Returns("nearestPageAt", pt, nearestPageAt(L, heap, FreshRectsId, pt), "none")
    /\ UNCHANGED <<heap, C, view>>

PagesAt(q) ==
    /\ L' = pageRects(L, heap, FreshRectsId)
    /\ Returns("pagesAt", q, pagesAt(L, heap, FreshRectsId, q), "none")
    /\ UNCHANGED <<heap, C, view>>

Pos2Offset(pt) ==
    /\ L' = pageRects(L, heap, FreshRectsId)
    /\ \E r \in {pos2offset(L, heap, FreshRectsId, pt)} :
          Returns("pos2offset", pt, r.ret, r.err)
    /\ UNCHANGED <<heap, C, view>>

WidestPage ==
    /\ Returns("widestPage", None, widestPage(L, heap), "none")
    /\ UNCHANGED <<L, heap, C, view>>

HighestPage ==
    /\ Returns("highestPage", None, highestPage(L, heap), "none")
    /\ UNCHANGED <<L, heap, C, view>>

Fit(size, mode) ==
    /\ L' = [L EXCEPT !.zoomFactor = fit(L, heap, size, mode)]
    /\ Returns("fit", <<size, mode>>, None, "none")
    /\ UNCHANGED <<heap, C, view>>

ZoomFitWidth(width) ==
    /\ \E r \in {zoomFitWidth(L, heap, width)} :
          Returns("zoomFitWidth", width, r.ret, r.err)
    /\ UNCHANGED <<L, heap, C, view>>

ZoomFitHeight(height) ==
    /\ \E r \in {zoomFitHeight(L, heap, height)} :
          Returns("zoomFitHeight", height, r.ret, r.err)
    /\ UNCHANGED <<L, heap, C, view>>

CallPageSets ==
    /\ Returns("pageSets", None, pageSets(L), "none")
    /\ UNCHANGED <<L, heap, C, view>>

CallPageSetCount ==
    /\ Returns("pageSetCount", None, pageSetCount(L), "none")
    /\ UNCHANGED <<L, heap, C, view>>

CallPageSet(index) ==
    /\ Returns("pageSet", index, pageSet(L, index), "none")
    /\ UNCHANGED <<L, heap, C, view>>

\* arg records currentPageSet as it was when displayPages() was called
CallDisplayPages ==
    /\ L' = [L EXCEPT !.currentPageSet = displayPages(L).currentPageSet]
    /\ Returns("displayPages", L.currentPageSet, displayPages(L).pages, "none")
    /\ UNCHANGED <<heap, C, view>>

---------------------------------------------------------------------------
(* Inputs *)

PageSpecs == {<<4, 6, 0>>, <<7, 3, 0>>, <<4, 6, 1>>}

UniformPages(n) == [k \in 1..n |-> <<4, 6, 0>>]

Points == {<<0, 0>>, <<7, 7>>, <<7, 21>>, <<21, 7>>}

NearPoints == {<<0, 0>>, <<7, 7>>}

QueryRects == {[left |-> 0, top |-> 0, right |-> 10, bottom |-> 10]}

Queries == {"pageAt", "nearestPageAt", "pagesAt"}

---------------------------------------------------------------------------
(* Spec: a layout from its construction on: pages come and go, the display  *)
(* mode and the zoom change, update() and the spatial queries are called    *)

Init ==
    \E kind \in Kinds :
        /\ L = NewLayout(kind[1], kind[2])
        /\ heap = <<>>
        /\ C = NoLayout
        /\ view = NewView
        /\ op = "init" /\ arg = None /\ ret = None /\ err = "none"

Next ==
    \/ AppendPage(<<4, 6, 0>>, MaxPages)
    \/ PopPage
    \/ \E b \in BOOLEAN : SetContinuousMode(b)
    \/ \E n \in 0..1 : SetCurrentPageSet(n)
    \/ Update
    \/ \E pt \in NearPoints : PageAt(pt)
    \/ \E pt \in NearPoints : NearestPageAt(pt)
    \/ \E q \in QueryRects : PagesAt(q)

Spec == Init /\ [][Next]_vars

\* C4: update() discards the cached spatial index and builds none; an index
\* is built only by a pageAt/pagesAt/nearestPageAt call that finds none
\* cached, from displayPages() as of that call; a query that finds an index
\* cached keeps that same index.
C4_IndexIsBuiltLazily ==
    [][/\ op' = "update" => L'.rects = NoRects
       /\ (L'.rects # L.rects /\ L'.rects # NoRects) =>
             /\ op' \in Queries
             /\ L.rects = NoRects
             /\ L'.rects.items = PageRects(displayPages(L).pages, heap, 0).items
       /\ (op' \in Queries /\ L.rects # NoRects) => L'.rects = L.rects]_vars

\* A query has answered from an index that is older than the layout: the
\* pages displayed now are not the pages of the index.
C4_Witness ==
    /\ op \in Queries
    /\ L.rects # NoRects
    /\ L.rects.items # <<>>
    /\ L.rects.items # PageRects(displayPages(L).pages, heap, 0).items

---------------------------------------------------------------------------
(* SpecUpdate: layouts of every kind holding pages of different sizes; the  *)
(* attributes update() reads are changed and update() is called             *)

RECURSIVE SeqsUpTo(_, _)
SeqsUpTo(S, n) ==
    IF n = 0 THEN {<<>>}
    ELSE LET shorter == SeqsUpTo(S, n - 1)
         IN  shorter \cup {Append(q, e) : q \in shorter, e \in S}

UnequalMargins == [left |-> 2, top |-> 4, right |-> 7, bottom |-> 9]

InitUpdate ==
    \E kind \in Kinds :
      \E specs \in SeqsUpTo({<<4, 6, 0>>, <<7, 3, 1>>}, MaxUpdatePages) :
        \E per \in 1..2 :
          LET w == WithPages(NewLayout(kind[1], kind[2]), specs)
          IN  /\ L = IF kind[1] = "row" THEN [w.layout EXCEPT !.pagesPerRow = per]
                     ELSE [w.layout EXCEPT !.pagesPerSet = per]
              /\ heap = w.heap
              /\ C = NoLayout
              /\ view = NewView
              /\ op = "init" /\ arg = None /\ ret = None /\ err = "none"

NextUpdate ==
    \/ \E b \in BOOLEAN : SetContinuousMode(b)
    \/ \E n \in 0..2 : SetCurrentPageSet(n)
    \/ \E z \in {<<1, 1>>, <<3, 2>>} : SetZoomFactor(z)
    \/ \E m \in {NewLayout("abstract", "Vertical").margins, UnequalMargins} : SetMargins(m)
    \/ Update

SpecUpdate == InitUpdate /\ [][NextUpdate]_vars

\* C5: update() called twice in a row, with nothing changed in between,
\* returns False the second time and leaves every page's size and position,
\* the layout's geometry and currentPageSet as they were.
C5_UpdateIsIdempotent ==
    [][(op = "update" /\ op' = "update") =>
          /\ ret' = FALSE
          /\ heap' = heap
          /\ layoutGeometry(L') = layoutGeometry(L)
          /\ L'.currentPageSet = L.currentPageSet]_vars

\* update() has run twice in a row on a layout of several pages that shows
\* its last page set only.
C5_Witness ==
    /\ op = "update" /\ arg = TRUE
    /\ ret = FALSE
    /\ ~L.continuousMode
    /\ Len(L.pages) >= 2
    /\ L.currentPageSet >= 1
    /\ L.currentPageSet = pageSetCount(L) - 1

---------------------------------------------------------------------------
(* SpecOffset: pos2offset() on layouts of every kind, updated or not        *)

\* positions inside the area of every layout of SpecOffset
OffsetPoints == {<<0, 0>>, <<7, 7>>, <<8, 12>>}

InitOffset ==
    \E kind \in Kinds :
      \E specs \in SeqsUpTo({<<4, 6, 0>>, <<7, 3, 0>>}, MaxPages) :
        \E m \in {NewLayout("abstract", "Vertical").margins, UnequalMargins} :
          LET w == WithPages(NewLayout(kind[1], kind[2]), specs)
          IN  /\ L = [w.layout EXCEPT !.margins = m]
              /\ heap = w.heap
              /\ C = NoLayout
              /\ view = NewView
              /\ op = "init" /\ arg = None /\ ret = None /\ err = "none"

NextOffset ==
    \/ \E z \in {<<1, 1>>, <<2, 1>>} : SetZoomFactor(z)
    \/ Update
    \/ \E pt \in OffsetPoints : Pos2Offset(pt)

SpecOffset == InitOffset /\ [][NextOffset]_vars

\* The state is one update() leaves: nothing has changed since update() ran
\* (with the margins of SpecOffset no layout is in such a state before its
\* first update()).
UpToDate ==
    /\ update(L, heap).heap = heap
    /\ ~update(L, heap).changed
    /\ update(L, heap).layout.currentPageSet = L.currentPageSet

\* C7: on a layout as update() leaves it, pos2offset(pos) returns (i, x, y)
\* with i the index of a page or -1, 0 <= x <= 1 and 0 <= y <= 1, for every
\* pos, also when the nearest page is used.
C7_OffsetFractionsInUnitRange ==
    (op = "pos2offset" /\ UpToDate) =>
        /\ err = "none"
        /\ ret[1] \in -1..(Len(L.pages) - 1)
        /\ 0 <= ret[2][1] /\ ret[2][1] <= ret[2][2]
        /\ 0 <= ret[3][1] /\ ret[3][1] <= ret[3][2]

---------------------------------------------------------------------------
(* SpecEmpty: layouts of every kind that hold no page *)

ZeroMargins == [left |-> 0, top |-> 0, right |-> 0, bottom |-> 0]

InitEmpty ==
    \E kind \in Kinds :
        /\ L = NewLayout(kind[1], kind[2])
        /\ heap = <<>>
        /\ C = NoLayout
        /\ view = NewView
        /\ op = "init" /\ arg = None /\ ret = None /\ err = "none"

FitExtents == {40, 80}

NextEmpty ==
    \/ \E m \in {NewLayout("abstract", "Vertical").margins, ZeroMargins} : SetMargins(m)
    \/ \E b \in BOOLEAN : SetContinuousMode(b)
    \/ \E n \in 0..1 : SetCurrentPageSet(n)
    \/ \E b \in BOOLEAN : SetFitAllColumns(b)
    \/ Update
    \/ WidestPage
    \/ HighestPage
    \/ \E pt \in NearPoints : NearestPageAt(pt)
    \/ \E pt \in NearPoints : Pos2Offset(pt)
    \/ \E w \in FitExtents : \E mode \in 0..3 : Fit(<<w, w>>, mode)
    \/ \E w \in FitExtents : ZoomFitWidth(w)
    \/ \E h \in FitExtents : ZoomFitHeight(h)

SpecEmpty == InitEmpty /\ [][NextEmpty]_vars

\* C8: on an empty layout widestPage(), highestPage(), nearestPageAt(),
\* pos2offset(), fit(), zoomFitWidth() and zoomFitHeight() raise no error and
\* give no result: None, the page index -1, or an unchanged zoomFactor (no
\* other operation of SpecEmpty assigns zoomFactor).
C8_EmptyLayoutNeverRaises ==
    L.pages = <<>> =>
        /\ err = "none"
        /\ op \in {"widestPage", "highestPage", "nearestPageAt",
                   "zoomFitWidth", "zoomFitHeight"} => ret = None
        /\ op = "pos2offset" => ret[1] = -1
        /\ L.zoomFactor = NewLayout("abstract", "Vertical").zoomFactor

---------------------------------------------------------------------------
(* SpecCopy: a layout L that is updated and queried, its copy C, and the    *)
(* operations on the copy                                                    *)

\* c = L.copy(), once
Copy ==
    /\ C = NoLayout
    /\ \E c \in {copyLayout(L, heap)} :
          /\ C' = c.layout
          /\ heap' = c.heap
    /\ Returns("copy", None, None, "none")
    /\ UNCHANGED <<L, view>>

\* c.update()
CUpdate ==
    /\ C # NoLayout
    /\ \E u \in {update(C, heap)} :
          /\ C' = u.layout
          /\ heap' = u.heap
          /\ Returns("c.update", None, u.changed, "none")
    /\ UNCHANGED <<L, view>>

\* c.pageAt(point)
CPageAt(pt) ==
    /\ C # NoLayout
    /\ C' = pageRects(C, heap, FreshRectsId)
    /\ Returns("c.pageAt", pt, pageAt(C, heap, FreshRectsId, pt), "none")
    /\ UNCHANGED <<heap, L, view>>

\* c.nearestPageAt(point)
CNearestPageAt(pt) ==
    /\ C # NoLayout
    /\ C' = pageRects(C, heap, FreshRectsId)
    /\ Returns("c.nearestPageAt", pt, nearestPageAt(C, heap, FreshRectsId, pt), "none")
    /\ UNCHANGED <<heap, L, view>>

\* c.pagesAt(rect)
CPagesAt(q) ==
    /\ C # NoLayout
    /\ C' = pageRects(C, heap, FreshRectsId)
    /\ Returns("c.pagesAt", q, pagesAt(C, heap, FreshRectsId, q), "none")
    /\ UNCHANGED <<heap, L, view>>

\* c.pageAt(point).rotation = r: the caller changes the page it obtained
CRotatePageAt(pt, r) ==
    /\ C # NoLayout
    /\ pageAt(C, heap, FreshRectsId, pt) # None
    /\ C' = pageRects(C, heap, FreshRectsId)
    /\ heap' = [heap EXCEPT ![pageAt(C, heap, FreshRectsId, pt)].rotation = r]
    /\ Returns("c.pageAt.rotation", pt, pageAt(C, heap, FreshRectsId, pt), "none")
    /\ UNCHANGED <<L, view>>

CopyOps == {"c.update", "c.pageAt", "c.nearestPageAt", "c.pagesAt", "c.pageAt.rotation"}

InitCopy ==
    \E kind \in Kinds :
      \E specs \in SeqsUpTo({<<4, 6, 0>>, <<7, 3, 0>>}, MaxPages) :
        LET w == WithPages(NewLayout(kind[1], kind[2]), specs)
        IN  /\ L = w.layout
            /\ heap = w.heap
            /\ C = NoLayout
            /\ view = NewView
            /\ op = "init" /\ arg = None /\ ret = None /\ err = "none"

NextCopy ==
    \/ Update
    \/ \E pt \in NearPoints : PageAt(pt)
    \/ Copy
    \/ CUpdate
    \/ \E pt \in NearPoints : CPageAt(pt)
    \/ \E pt \in NearPoints : CNearestPageAt(pt)
    \/ \E q \in QueryRects : CPagesAt(q)
    \/ \E pt \in NearPoints : CRotatePageAt(pt, 1)

SpecCopy == InitCopy /\ [][NextCopy]_vars

\* C6: the copy holds one page object of its own per page of L, in the same
\* order and with equal geometry when copy() returns; no query on the copy
\* returns a page of L, and no operation on the copy changes a page of L.
C6_CopyIsIndependent ==
    /\ [](C # NoLayout =>
            /\ Len(C.pages) = Len(L.pages)
            /\ Cardinality(Range(C.pages)) = Len(C.pages)
            /\ Range(C.pages) \cap Range(L.pages) = {}
            /\ op = "copy" =>
                 \A k \in 1..Len(L.pages) :
                    geometry(heap[C.pages[k]]) = geometry(heap[L.pages[k]])
            /\ op \in {"c.pageAt", "c.nearestPageAt", "c.pageAt.rotation"} =>
                 ret \notin Range(L.pages)
            /\ op = "c.pagesAt" => ret \cap Range(L.pages) = {})
    /\ [][op' \in CopyOps =>
            \A id \in Range(L.pages) : heap'[id] = heap[id]]_vars

---------------------------------------------------------------------------
(* SpecStack: update() of stacking layouts (PageLayout, both orientations)  *)
(* under equal and unequal margins                                           *)

WideLeftMargins == [left |-> 7, top |-> 9, right |-> 2, bottom |-> 4]

StackMargins ==
    {NewLayout("page", "Vertical").margins, ZeroMargins, UnequalMargins, WideLeftMargins}

StackSpacings == {0, DefaultSpacing}

InitStack ==
    \E orientation \in {"Vertical", "Horizontal"} :
      \E specs \in SeqsUpTo({<<4, 6, 0>>, <<7, 3, 0>>}, MaxPages) :
        LET w == WithPages(NewLayout("page", orientation), specs)
        IN  /\ L = w.layout
            /\ heap = w.heap
            /\ C = NoLayout
            /\ view = NewView
            /\ op = "init" /\ arg = None /\ ret = None /\ err = "none"

NextStack ==
    \/ \E m \in StackMargins : SetMargins(m)
    \/ \E v \in StackSpacings : SetSpacing(v)
    \/ Update

SpecStack == InitStack /\ [][NextStack]_vars

\* C11: after update() of a PageLayout every page lies at or beyond the left
\* and the top margin; on the stacking axis the first page starts at the
\* margin and each following page starts spacing after the end of the page
\* before it.  Positions are in half pixels.
C11_StackingRespectsMargins ==
    (op = "update" /\ L.kind = "page") =>
        /\ \A k \in 1..Len(L.pages) :
              /\ heap[L.pages[k]].x2 >= 2 * L.margins.left
              /\ heap[L.pages[k]].y2 >= 2 * L.margins.top
        /\ L.orientation = "Vertical" =>
              \A k \in 1..Len(L.pages) :
                 heap[L.pages[k]].y2 =
                    IF k = 1 THEN 2 * L.margins.top
                    ELSE heap[L.pages[k - 1]].y2
                           + 2 * (heap[L.pages[k - 1]].height + L.spacing)
        /\ L.orientation = "Horizontal" =>
              \A k \in 1..Len(L.pages) :
                 heap[L.pages[k]].x2 =
                    IF k = 1 THEN 2 * L.margins.left
                    ELSE heap[L.pages[k - 1]].x2
                           + 2 * (heap[L.pages[k - 1]].width + L.spacing)

---------------------------------------------------------------------------
(* SpecRows: grid layouts of 0..MaxSetPages equal pages whose pagesPerRow,  *)
(* pagesFirstRow, continuousMode and currentPageSet are set, and update()   *)

InitRows ==
    \E n \in 0..MaxSetPages :
        LET w == WithPages(NewLayout("row", "Vertical"), UniformPages(n))
        IN  /\ L = w.layout /\ heap = w.heap
            /\ C = NoLayout
            /\ view = NewView
            /\ op = "init" /\ arg = None /\ ret = None /\ err = "none"

NextRows ==
    \/ \E n \in 1..MaxPerSet : SetPagesPerSet(n)
    \/ \E n \in 0..MaxPerSet : SetPagesFirstSet(n)
    \/ \E b \in BOOLEAN : SetContinuousMode(b)
    \/ \E n \in 0..MaxPerSet : SetCurrentPageSet(n)
    \/ Update

SpecRows == InitRows /\ [][NextRows]_vars

\* Two pages are positioned in the same row: the rows of the grid are
\* disjoint vertical bands, so the pages' vertical extents meet.
SameRow(a, b) ==
    /\ get_coords(heap[a]).top <= get_coords(heap[b]).bottom
    /\ get_coords(heap[b]).top <= get_coords(heap[a]).bottom

\* C12: after update() of a RowPageLayout two pages are positioned in the
\* same row iff pageSet() gives them the same index, and displayPages() in
\* non-continuous mode returns exactly the pages of one row.
C12_RowsArePageSets ==
    (op = "update" /\ L.kind = "row") =>
        /\ \A i, j \in 1..Len(L.pages) :
              SameRow(L.pages[i], L.pages[j]) <=> pageSet(L, i - 1) = pageSet(L, j - 1)
        /\ (~L.continuousMode /\ L.pages # <<>>) =>
              \E p \in Range(L.pages) :
                 Range(displayPages(L).pages) = {q \in Range(L.pages) : SameRow(p, q)}

---------------------------------------------------------------------------
(* SpecLinks: a view on a layout of pages with links; the mouse moves and   *)
(* is pressed while linksEnabled and the dragging state change               *)

\* view.linksEnabled = b
SetLinksEnabled(b) ==
    /\ view' = [view EXCEPT !.linksEnabled = b]
    /\ Returns("linksEnabled", b, None, "none")
    /\ UNCHANGED <<L, heap, C>>

\* the background starts or stops being dragged: isDragging() afterwards
SetDragging(b) ==
    /\ view' = [view EXCEPT !.dragging = b]
    /\ Returns("dragging", b, None, "none")
    /\ UNCHANGED <<L, heap, C>>

\* adjustCursor(pos); ret is the sequence of methods it called
AdjustCursor(pt) ==
    /\ IF view.dragging \/ ~view.linksEnabled
         THEN /\ UNCHANGED <<L, view>>
              /\ Returns("adjustCursor", pt, <<>>, "none")
         ELSE \E r \in {handleLinksWith(view, linkAt(L, heap, FreshRectsId, pt)[2])} :
                /\ L' = pageRects(L, heap, FreshRectsId)
                /\ view' = [view EXCEPT !.currentLinkId = r.currentLinkId]
                /\ Returns("adjustCursor", pt, r.calls, "none")
    /\ UNCHANGED <<heap, C>>

\* mousePressEvent(ev), ev.pos() = pt; ret is the sequence of methods it
\* called.  The test `if self.handleLinks:` is of a bound method, which is
\* true.
MousePressEvent(pt) ==
    /\ L' = pageRects(L, heap, FreshRectsId)
    /\ Returns("mousePressEvent", pt,
               IF linkAt(L, heap, FreshRectsId, pt)[2] # None
                 THEN <<"linkClickEvent">>
                 ELSE <<"super.mousePressEvent">>,
               "none")
    /\ UNCHANGED <<heap, C, view>>

\* off every page, on the link of the first page, on the first page off its link
LinkPoints == {<<0, 0>>, <<7, 7>>, <<9, 11>>}

InitLinks ==
    \E kind \in {<<"abstract", "Vertical">>, <<"row", "Vertical">>} :
      \E n \in 0..MaxPages :
        LET w == WithPages(NewLayout(kind[1], kind[2]), UniformPages(n))
        IN  /\ L = w.layout
            /\ heap = w.heap
            /\ C = NoLayout
            /\ view = NewView
            /\ op = "init" /\ arg = None /\ ret = None /\ err = "none"

NextLinks ==
    \/ Update
    \/ \E b \in BOOLEAN : SetLinksEnabled(b)
    \/ \E b \in BOOLEAN : SetDragging(b)
    \/ \E pt \in LinkPoints : AdjustCursor(pt)
    \/ \E pt \in LinkPoints : MousePressEvent(pt)

SpecLinks == InitLinks /\ [][NextLinks]_vars

\* C13: while linksEnabled is False, adjustCursor and mousePressEvent call
\* none of linkHoverEnter, linkHoverLeave and linkClickEvent, and
\* mousePressEvent calls the base class's mousePressEvent.
C13_NoLinkHandlingWhenDisabled ==
    (~view.linksEnabled /\ op \in {"adjustCursor", "mousePressEvent"}) =>
        /\ Range(ret) \cap {"linkHoverEnter", "linkHoverLeave", "linkClickEvent"} = {}
        /\ op = "mousePressEvent" => "super.mousePressEvent" \in Range(ret)

---------------------------------------------------------------------------
(* SpecGrid: update() of grid layouts of 0..MaxGridPages pages of two       *)
(* shapes, with every pagesPerRow and pagesFirstRow up to MaxPerSet          *)

InitGrid ==
    \E specs \in SeqsUpTo({<<4, 6, 0>>, <<7, 3, 0>>}, MaxGridPages) :
      \E cols \in 1..MaxPerSet : \E first \in 0..MaxPerSet : \E v \in {0, DefaultSpacing} :
        LET w == WithPages(NewLayout("row", "Vertical"), specs)
        IN  /\ L = [w.layout EXCEPT !.pagesPerRow = cols, !.pagesFirstRow = first,
                                    !.spacing = v]
            /\ heap = w.heap
            /\ C = NoLayout
            /\ view = NewView
            /\ op = "init" /\ arg = None /\ ret = None /\ err = "none"

NextGrid == Update

SpecGrid == InitGrid /\ [][NextGrid]_vars

\* The grid the claim describes, for the 0-based page k of L: its row and
\* column, and the cells' sizes and places computed from the pages' sizes.
GridPad == (L.pagesPerRow - L.pagesFirstRow) % L.pagesPerRow

GridRow(k) == (k + GridPad) \div L.pagesPerRow

GridCol(k) == (k + GridPad) % L.pagesPerRow

GridPage(k) == heap[L.pages[k + 1]]

GridIndices == 0..(Len(L.pages) - 1)

GridColWidth(c) == MaxOf({GridPage(k).width : k \in {j \in GridIndices : GridCol(j) = c}})

GridRowHeight(r) == MaxOf({GridPage(k).height : k \in {j \in GridIndices : GridRow(j) = r}})

RECURSIVE GridColLeft(_)
GridColLeft(c) ==
    IF c = 0 THEN L.margins.left
    ELSE GridColLeft(c - 1) + GridColWidth(c - 1) + L.spacing

RECURSIVE GridRowTop(_)
GridRowTop(r) ==
    IF r = 0 THEN L.margins.top
    ELSE GridRowTop(r - 1) + GridRowHeight(r - 1) + L.spacing

Disjoint(a, b) ==
    \/ a.x + a.w <= b.x \/ b.x + b.w <= a.x
    \/ a.y + a.h <= b.y \/ b.y + b.h <= a.y

\* C10: after update() of a grid layout with more pages than pagesPerRow and
\* 1 <= pagesFirstRow <= pagesPerRow, page k lies inside the cell of row
\* (k + pad) div cols and column (k + pad) mod cols, pad = (cols -
\* pagesFirstRow) mod cols, where a column is as wide as its widest page and a
\* row as high as its highest page; the first row holds exactly pagesFirstRow
\* pages; and no two pages overlap (spacing >= 0).
C10_GridCells ==
    (/\ op = "update" /\ L.kind = "row"
     /\ Len(L.pages) > L.pagesPerRow
     /\ 1 <= L.pagesFirstRow /\ L.pagesFirstRow <= L.pagesPerRow
     /\ L.spacing >= 0) =>
        /\ \A k \in GridIndices :
              LET g == geometry(GridPage(k))
              IN  /\ GridPage(k).x2 = 2 * g.x /\ GridPage(k).y2 = 2 * g.y
                  /\ GridColLeft(GridCol(k)) <= g.x
                  /\ g.x + g.w <= GridColLeft(GridCol(k)) + GridColWidth(GridCol(k))
                  /\ GridRowTop(GridRow(k)) <= g.y
                  /\ g.y + g.h <= GridRowTop(GridRow(k)) + GridRowHeight(GridRow(k))
        /\ Cardinality({k \in GridIndices :
                          geometry(GridPage(k)).y < L.margins.top + GridRowHeight(0)})
             = L.pagesFirstRow
        /\ \A k \in GridIndices : \A j \in GridIndices :
              k < j => Disjoint(geometry(GridPage(k)), geometry(GridPage(j)))

\* The layout of the example: 7 pages, 3 per row and 1 in the first row,
\* updated, with pages of both shapes in the first full row.
C10_Witness ==
    /\ op = "update" /\ L.kind = "row"
    /\ Len(L.pages) = 7 /\ L.pagesPerRow = 3 /\ L.pagesFirstRow = 1
    /\ heap[L.pages[2]].width # heap[L.pages[3]].width
    /\ {k \in GridIndices : geometry(GridPage(k)).y = geometry(GridPage(1)).y
                            \/ Disjoint(geometry(GridPage(k)),
                                        [x |-> 0, y |-> GridRowTop(1), w |-> 1000,
                                         h |-> GridRowHeight(1)]) = FALSE}
         = {1, 2, 3}

---------------------------------------------------------------------------
(* SpecSets: the page-set computations on layouts of 0..MaxSetPages pages *)

InitSets ==
    \E kind \in {<<"abstract", "Vertical">>, <<"row", "Vertical">>} :
      \E n \in 0..MaxSetPages :
        LET w == WithPages(NewLayout(kind[1], kind[2]), UniformPages(n))
        IN  /\ L = w.layout /\ heap = w.heap
            /\ C = NoLayout
            /\ view = NewView
            /\ op = "init" /\ arg = None /\ ret = None /\ err = "none"

NextSets ==
    \/ \E n \in 1..MaxPerSet : SetPagesPerSet(n)
    \/ \E n \in 0..MaxPerSet : SetPagesFirstSet(n)
    \/ \E b \in BOOLEAN : SetContinuousMode(b)
    \/ \E n \in 0..MaxPerSet : SetCurrentPageSet(n)
    \/ CallPageSets
    \/ CallPageSetCount
    \/ \E i \in -2..(MaxSetPages + 2) : CallPageSet(i)
    \/ CallDisplayPages

SpecSets == InitSets /\ [][NextSets]_vars

RECURSIVE SumRuns(_, _)
SumRuns(sets, k) ==
    IF k > Len(sets) THEN 0 ELSE sets[k][1] * sets[k][2] + SumRuns(sets, k + 1)

\* the number of pages, and of page sets, in the runs before run k
PagesBefore(sets, k) == SumRuns(SubSeq(sets, 1, k - 1), 1)

SetsBefore(sets, k) == SumCounts(SubSeq(sets, 1, k - 1), 1)

\* C1: pageSets() returns at most three (run_count, set_length) pairs whose
\* sum of run_count * set_length is the page count, and the list is empty
\* exactly when there are no pages.
C1_PageSetsCoverAllPages ==
    op = "pageSets" =>
        /\ Len(ret) <= 3
        /\ SumRuns(ret, 1) = Len(L.pages)
        /\ (ret = <<>>) <=> (Len(L.pages) = 0)

\* C2: for every index i of a page, pageSet(i) is the page-set index found by
\* walking the runs of pageSets() up to the run that contains i.
C2_PageSetMatchesRuns ==
    (op = "pageSet" /\ 0 <= arg /\ arg < Len(L.pages)) =>
        \E k \in 1..Len(pageSets(L)) :
            /\ PagesBefore(pageSets(L), k) <= arg
            /\ arg < PagesBefore(pageSets(L), k + 1)
            /\ ret = SetsBefore(pageSets(L), k)
                       + ((arg - PagesBefore(pageSets(L), k)) \div pageSets(L)[k][2])

\* the 0-based indices of the pages that pageSet() puts in page set q
IndicesOfSet(l, q) == {i \in 0..(Len(l.pages) - 1) : pageSet(l, i) = q}

\* C3: displayPages() returns all pages in continuous mode and leaves
\* currentPageSet alone; otherwise, on a non-empty layout, it clamps a
\* currentPageSet beyond the last set to pageSetCount() - 1 and returns
\* exactly the contiguous pages i with pageSet(i) = currentPageSet.
C3_DisplayPagesIsCurrentSet ==
    op = "displayPages" =>
        /\ L.continuousMode => (ret = L.pages /\ L.currentPageSet = arg)
        /\ (~L.continuousMode /\ L.pages # <<>>) =>
              /\ L.currentPageSet = Min(arg, pageSetCount(L) - 1)
              /\ \E lo \in 0..(Len(L.pages) - 1) : \E hi \in lo..(Len(L.pages) - 1) :
                    /\ IndicesOfSet(L, L.currentPageSet) = lo..hi
                    /\ ret = SubSeq(L.pages, lo + 1, hi + 1)

\* C9: on a non-empty layout pageSet(index) returns 0 for every index out of
\* range (index < 0 or index >= page count) and does not raise.
C9_PageSetOutOfRangeIsZero ==
    (op = "pageSet" /\ L.pages # <<>> /\ (arg < 0 \/ arg >= Len(L.pages))) =>
        ret = 0 /\ err = "none"

====
